---- MODULE Spec2Model ----
(***************************************************************************)
(* Loan portfolio tracker (Giliarde AGI).                                  *)
(*                                                                         *)
(* Three revisions of the application component live in the repository:    *)
(*   - the first revision (src/App.tsx, first component): the record list  *)
(*     in local storage, structural delete, toggle without status;         *)
(*   - the local revision (src/unnamed/part_000): local storage, soft      *)
(*     delete, payment toggle, notifications, and the import prompt with   *)
(*     its merge and replace modes (processImportedData);                  *)
(*   - the cloud revision (src/App.tsx, second component): the realtime    *)
(*     mirror (src/services/cloudService.ts), where every snapshot         *)
(*     replaces the local record set.                                      *)
(* SpecFirst and Spec model one device running the first and the local     *)
(* revision, SpecCloud models several devices of the cloud revision around *)
(* one cloud collection. SpecForeign feeds the local revision with        *)
(* payloads no device exported, SpecQuota runs it on a storage that fills  *)
(* up, and SpecChart applies calculateProgression (src/constants.ts) to    *)
(* lists of loans.                                                         *)
(***************************************************************************)
EXTENDS Integers, Sequences, FiniteSets, TLC

\* ------------------------------------------------------------------ bounds
\* Largest value of the wall clock (Date.now()) and of a payload timestamp.
MaxClock == 2

\* ------------------------------------------------------- program constants
\* JavaScript `undefined` for the optional numeric field lastUpdated.
Undefined == -1

\* The calendar day the derivations run on (new Date() at midnight).
Today == 5

Ids == {"a", "b"}

\* Due date of the single installment the form generated for each loan:
\* loan "a" fell due yesterday, loan "b" falls due today.
DueOf(id) == IF id = "a" THEN Today - 1 ELSE Today

\* ---------------------------------------------------------------- records
Installment(id, paid) == [number |-> 1, dueDate |-> DueOf(id), isPaid |-> paid]

Client(id, ts, del, paid, st) ==
  [id |-> id, startDate |-> DueOf(id) - 30, lastUpdated |-> ts, isDeleted |-> del,
   status |-> st, installmentsList |-> << Installment(id, paid) >>]

\* `x.lastUpdated || 0`
TsOf(c) == IF c.lastUpdated = Undefined THEN 0 ELSE c.lastUpdated

\* `x.lastUpdated || Date.now()`
TsOrNow(c, t) == IF c.lastUpdated = Undefined \/ c.lastUpdated = 0 THEN t ELSE c.lastUpdated

Range(s) == {s[i] : i \in 1..Len(s)}

IdsOf(list) == {list[i].id : i \in 1..Len(list)}

\* Array.prototype.find by id; only used where the id is present.
Find(list, id) == list[CHOOSE i \in 1..Len(list) : list[i].id = id]

\* ------------------------------------------------------------ JS Map model
\* A Map keeps insertion order; set() on an existing key replaces in place.
MapHas(m, id) == \E i \in 1..Len(m) : m[i].id = id

MapGet(m, id) == Find(m, id)

MapSet(m, rec) ==
  IF MapHas(m, rec.id)
  THEN [i \in 1..Len(m) |-> IF m[i].id = rec.id THEN rec ELSE m[i]]
  ELSE Append(m, rec)

\* new Map(clients.map(c => [c.id, { ...c, lastUpdated: c.lastUpdated || 0 }]))
RECURSIVE CurrentMapFrom(_, _)
CurrentMapFrom(list, m) ==
  IF list = << >> THEN m
  ELSE CurrentMapFrom(Tail(list),
                      MapSet(m, [Head(list) EXCEPT !.lastUpdated = TsOf(Head(list))]))

CurrentMap(list) == CurrentMapFrom(list, << >>)

\* Variants of the merge step with a plausible slip: a tie goes to the
\* imported copy; an existing id is never overwritten; an imported tombstone
\* never overwrites a live record.
MergeOneTieImported(m, importedClient) ==
  IF MapHas(m, importedClient.id)
  THEN IF TsOf(importedClient) >= TsOf(MapGet(m, importedClient.id))
       THEN MapSet(m, importedClient)
       ELSE m
  ELSE MapSet(m, importedClient)

MergeOneKeepLocal(m, importedClient) ==
  IF MapHas(m, importedClient.id) THEN m ELSE MapSet(m, importedClient)

MergeOneAddWins(m, importedClient) ==
  IF MapHas(m, importedClient.id)
  THEN IF /\ TsOf(importedClient) > TsOf(MapGet(m, importedClient.id))
          /\ ~(importedClient.isDeleted /\ ~MapGet(m, importedClient.id).isDeleted)
       THEN MapSet(m, importedClient)
       ELSE m
  ELSE MapSet(m, importedClient)

\* One iteration of importedClients.forEach in the merge branch.

MergeOne(m, importedClient) ==
  IF MapHas(m, importedClient.id)
  THEN IF TsOf(importedClient) > TsOf(MapGet(m, importedClient.id))
       THEN MapSet(m, importedClient)
       ELSE m
  ELSE MapSet(m, importedClient)

RECURSIVE MergeLoop(_, _)
MergeLoop(m, imported) ==
  IF imported = << >> THEN m
  ELSE MergeLoop(MergeOne(m, Head(imported)), Tail(imported))

\* mergedList = Array.from(currentMap.values()) after the forEach.
Merge(local, imported) == MergeLoop(CurrentMap(local), imported)

\* A replace that keeps the local records the import does not mention.
ReplaceAllKeepingLocal(local, imported) == Merge(imported, local)

\* setClients(importedClients) in the replace branch.
ReplaceAll(local, imported) == imported

\* --------------------------------------------------------- status engine
\* Instants are hours since the epoch, calendar days are day numbers, and a
\* device sits `z` hours east of UTC.
TzOffsets == {-3, 2}

\* new Date('YYYY-MM-DD'): a date-only text is read as midnight UTC.
ParseDate(day) == 24 * day

\* The instant of the local midnight that opens calendar day `day`.
LocalMidnight(day, z) == 24 * day - z

\* date.setHours(0, 0, 0, 0): back to the midnight of the local day.
SetHoursZero(instant, z) == LocalMidnight((instant + z) \div 24, z)

\* const today = new Date(); today.setHours(0, 0, 0, 0)
TodayMidnight(z) == LocalMidnight(Today, z)

\* `!inst.isPaid && new Date(inst.dueDate) < today`
IsOverdue(inst, z) == ~inst.isPaid /\ ParseDate(inst.dueDate) < TodayMidnight(z)

\* handleTogglePayment's "Recalculate Status" block.
RecalcStatus(insts, z) ==
  IF \A i \in 1..Len(insts) : insts[i].isPaid THEN "Completed"
  ELSE IF \E i \in 1..Len(insts) : IsOverdue(insts[i], z)
       THEN "Late"
       ELSE "Active"

\* The mount effect "Status check on mount" applied to one client.
StatusCheckOne(client, z) ==
  IF client.isDeleted \/ client.status = "Completed" THEN client
  ELSE LET isLate == \E i \in 1..Len(client.installmentsList) :
                        IsOverdue(client.installmentsList[i], z)
           newStatus == IF isLate THEN "Late" ELSE "Active"
       IN  IF client.status # newStatus THEN [client EXCEPT !.status = newStatus]
           ELSE client

StatusCheck(list, z) == [i \in 1..Len(list) |-> StatusCheckOne(list[i], z)]

\* ------------------------------------------------------------ derivations
\* Array.prototype.sort is stable: an element goes behind its equals.
RECURSIVE InsertByStartDate(_, _)
InsertByStartDate(sorted, c) ==
  IF sorted = << >> THEN << c >>
  ELSE IF ParseDate(Head(sorted).startDate) >= ParseDate(c.startDate)
       THEN << Head(sorted) >> \o InsertByStartDate(Tail(sorted), c)
       ELSE << c >> \o sorted

RECURSIVE SortByStartDate(_)
SortByStartDate(list) ==
  IF list = << >> THEN << >>
  ELSE InsertByStartDate(SortByStartDate(SubSeq(list, 1, Len(list) - 1)), list[Len(list)])

\* A useMemo that forgets the filter.
ActiveClientsUnfiltered(list) == SortByStartDate(list)

\* activeClients: clients.filter(c => !c.isDeleted).sort(latest startDate first)
ActiveClients(list) == SortByStartDate(SelectSeq(list, LAMBDA c : ~c.isDeleted))

\* Math.ceil(x / d) for a positive d.
CeilDiv(x, d) == -((-x) \div d)

\* diffDays of the notification logic; a day has 24 hours.
DiffDays(dueDate, z) ==
  CeilDiv(SetHoursZero(ParseDate(dueDate), z) - TodayMidnight(z), 24)

\* The local revision's alerts of one client, in the order of its installments.
RECURSIVE AlertsOfClient(_, _, _)
AlertsOfClient(client, insts, z) ==
  IF insts = << >> THEN << >>
  ELSE LET inst == Head(insts)
           diffDays == DiffDays(inst.dueDate, z)
           rest == AlertsOfClient(client, Tail(insts), z)
       IN  IF ~inst.isPaid /\ diffDays <= 1
           THEN << [clientId |-> client.id, installmentNumber |-> inst.number,
                    dueDate |-> inst.dueDate, daysDue |-> diffDays] >> \o rest
           ELSE rest

RECURSIVE CollectAlerts(_, _)
CollectAlerts(active, z) ==
  IF active = << >> THEN << >>
  ELSE AlertsOfClient(Head(active), Head(active).installmentsList, z)
       \o CollectAlerts(Tail(active), z)

RECURSIVE InsertByDaysDue(_, _)
InsertByDaysDue(sorted, e) ==
  IF sorted = << >> THEN << e >>
  ELSE IF Head(sorted).daysDue <= e.daysDue
       THEN << Head(sorted) >> \o InsertByDaysDue(Tail(sorted), e)
       ELSE << e >> \o sorted

\* alerts.sort((a, b) => a.daysDue - b.daysDue)
RECURSIVE SortByDaysDue(_)
SortByDaysDue(alertList) ==
  IF alertList = << >> THEN << >>
  ELSE InsertByDaysDue(SortByDaysDue(SubSeq(alertList, 1, Len(alertList) - 1)),
                       alertList[Len(alertList)])

\* `notifications` of the local revision.
Notifications(active, z) == SortByDaysDue(CollectAlerts(active, z))

\* The cloud revision's alerts of one client; the client's name stands for it.
RECURSIVE AppAlertsOfClient(_, _, _)
AppAlertsOfClient(client, insts, z) ==
  IF insts = << >> THEN << >>
  ELSE LET inst == Head(insts)
           diffDays == DiffDays(inst.dueDate, z)
           rest == AppAlertsOfClient(client, Tail(insts), z)
       IN  IF inst.isPaid THEN rest
           ELSE IF diffDays < 0
           THEN << [clientName |-> client.id, installment |-> inst.number,
                    days |-> diffDays, status |-> "overdue"] >> \o rest
           ELSE IF diffDays <= 1
           THEN << [clientName |-> client.id, installment |-> inst.number,
                    days |-> diffDays, status |-> "due"] >> \o rest
           ELSE rest

\* `notifications` of the cloud revision: the alerts as they were pushed.
RECURSIVE AppNotifications(_, _)
AppNotifications(active, z) ==
  IF active = << >> THEN << >>
  ELSE AppAlertsOfClient(Head(active), Head(active).installmentsList, z)
       \o AppNotifications(Tail(active), z)

\* overdueClientsSummary: per active client the number of overdue installments.
RECURSIVE OverdueClientsSummary(_, _)
OverdueClientsSummary(active, z) ==
  IF active = << >> THEN << >>
  ELSE LET client == Head(active)
           overdueCount == Cardinality({k \in 1..Len(client.installmentsList) :
                                          IsOverdue(client.installmentsList[k], z)})
           rest == OverdueClientsSummary(Tail(active), z)
       IN  IF overdueCount > 0
           THEN << [id |-> client.id, overdueCount |-> overdueCount] >> \o rest
           ELSE rest

\* summary / financialSummary: the field activeClients (the count).
SummaryActiveClients(active) == Len(active)

\* ------------------------------------------------- texts, files and links
\* A text is what JSON.parse makes of it: it throws ("garbage"), yields a
\* value that is not an array ("value"), or yields an array of clients.
EmptyText   == [kind |-> "empty", items |-> << >>]
GarbageText == [kind |-> "garbage", items |-> << >>]
ValueText   == [kind |-> "value", items |-> << >>]
ArrayText(list) == [kind |-> "array", items |-> list]

\* Records another device can have exported: loan "a" in every state of
\* payment and deletion and with every timestamp, loan "b" unpaid,
\* live or deleted.
ExportedRecords(id) ==
  IF id = "a"
  THEN { Client(id, ts, f[1], f[2], IF f[2] THEN "Completed" ELSE "Late") :
           ts \in {Undefined} \cup (1..MaxClock),
           f \in {<< FALSE, FALSE >>, << FALSE, TRUE >>, << TRUE, FALSE >>} }
  ELSE { Client(id, 1, FALSE, FALSE, "Active"), Client(id, Undefined, TRUE, FALSE, "Active") }

ExportedLists ==
  {<< >>}
  \cup { << r >> : r \in ExportedRecords("a") \cup ExportedRecords("b") }
  \cup { << r, q >> : r \in ExportedRecords("a"), q \in ExportedRecords("b") }

Payloads == { ArrayText(l) : l \in ExportedLists }

Texts == Payloads \cup {GarbageText, ValueText}

\* An entry of a payload that carries no id: `importedClient.id` is undefined.
NoId == "undefined"

WithoutId(c) == [c EXCEPT !.id = NoId]

\* Payloads as they come from outside the application: malformed texts, an
\* export of loan "a", and arrays holding an entry without an id.
ForeignTexts ==
  { GarbageText, ValueText,
    ArrayText(<< Client("a", 2, FALSE, TRUE, "Completed") >>),
    ArrayText(<< WithoutId(Client("b", 1, FALSE, FALSE, "Active")) >>),
    ArrayText(<< Client("a", 2, FALSE, TRUE, "Completed"),
                 WithoutId(Client("b", 1, FALSE, FALSE, "Active")) >>) }

\* What localStorage can hold under the key 'clients' before the page loads.
MissingItem == [kind |-> "missing", items |-> << >>]

SavedItems ==
  { MissingItem, GarbageText, ValueText, ArrayText(<< >>),
    ArrayText(<< Client("a", Undefined, FALSE, FALSE, "Active") >>),
    ArrayText(<< Client("a", 1, FALSE, FALSE, "Active") >>),
    ArrayText(<< Client("b", 1, FALSE, TRUE, "Completed"),
                 Client("a", Undefined, FALSE, FALSE, "Active") >>) }

\* The `sync` query parameter: absent, not base64, or base64 of a text.
NoLink  == [kind |-> "none", text |-> EmptyText]
BadLink == [kind |-> "invalid", text |-> EmptyText]
LinkOf(text) == [kind |-> "ok", text |-> text]

Links == {NoLink, BadLink} \cup { LinkOf(t) : t \in Texts }

ForeignLinks == {NoLink, BadLink} \cup { LinkOf(t) : t \in ForeignTexts }

\* ------------------------------------------------------ projection engine
\* What calculateProgression reads of a client.
Loan(principal, installments, interestRate) ==
  [principal |-> principal, installments |-> installments, interestRate |-> interestRate]

\* The loans of the model: on them every quotient below is a whole number of
\* sixteenths, so the doubles of the program carry the amounts exactly.
Principals == {1, 2}

InstallmentCounts == {1, 2, 4}

InterestRates == {0, 25, 100}

Loans == { Loan(p, n, r) : p \in Principals, n \in InstallmentCounts, r \in InterestRates }

\* Amounts are counted in sixteenths of the currency unit.
Unit == 16

\* Math.round of an amount: the nearest whole number, a half goes up.
MathRound(x) == (2 * x + Unit) \div (2 * Unit)

\* const principalPart = client.principal / client.installments
PrincipalPart(client) == (client.principal * Unit) \div client.installments

\* const totalOwed = client.principal * (1 + client.interestRate / 100)
TotalOwed(client) == (client.principal * Unit * (100 + client.interestRate)) \div 100

\* const monthlyPayment = totalOwed / client.installments
MonthlyPayment(client) == TotalOwed(client) \div client.installments

\* monthlyPrincipalReturn after the forEach of period i.
RECURSIVE MonthlyPrincipalReturn(_, _)
MonthlyPrincipalReturn(list, i) ==
  IF list = << >> THEN 0
  ELSE (IF i <= Head(list).installments THEN PrincipalPart(Head(list)) ELSE 0)
       + MonthlyPrincipalReturn(Tail(list), i)

\* monthlyInterestReturn after the forEach of period i.
RECURSIVE MonthlyInterestReturn(_, _)
MonthlyInterestReturn(list, i) ==
  IF list = << >> THEN 0
  ELSE (IF i <= Head(list).installments
        THEN MonthlyPayment(Head(list)) - PrincipalPart(Head(list)) ELSE 0)
       + MonthlyInterestReturn(Tail(list), i)

\* Math.max(...clients.map(c => c.installments), 0) || 6
MaxInstallments(list) ==
  LET counts == {list[k].installments : k \in 1..Len(list)} \cup {0}
      most == CHOOSE m \in counts : \A n \in counts : n <= m
  IN  IF most = 0 THEN 6 ELSE most

\* One pass of the for loop: the point pushed for period i.
ProgressionPoint(list, data, i) ==
  LET prevPrincipal == IF Len(data) > 0 THEN data[Len(data)].principal * Unit ELSE 0
      prevInterest == IF Len(data) > 0 THEN data[Len(data)].interest * Unit ELSE 0
      monthlyPrincipalReturn == MonthlyPrincipalReturn(list, i)
      monthlyInterestReturn == MonthlyInterestReturn(list, i)
  IN  [name |-> i,
       principal |-> MathRound(prevPrincipal + monthlyPrincipalReturn),
       interest |-> MathRound(prevInterest + monthlyInterestReturn),
       total |-> MathRound(prevPrincipal + monthlyPrincipalReturn
                           + prevInterest + monthlyInterestReturn)]

RECURSIVE ProgressionLoop(_, _, _, _)
ProgressionLoop(list, data, i, maxInstallments) ==
  IF i > maxInstallments THEN data
  ELSE ProgressionLoop(list, Append(data, ProgressionPoint(list, data, i)),
                       i + 1, maxInstallments)

calculateProgression(list) == ProgressionLoop(list, << >>, 1, MaxInstallments(list))

VARIABLES
  portfolio,        \* the clients the chart is drawn from, as calculateProgression reads them
  progressionData   \* useMemo `progressionData` as last rendered

chartVars == << portfolio, progressionData >>

\* No chart is looked at.
ChartIdle ==
  /\ portfolio = << >>
  /\ progressionData = << >>

\* ------------------------------------------------------ the local revision
VARIABLES
  booted,         \* the component has mounted
  now,            \* Date.now()
  storage,        \* localStorage item 'clients'
  clients,        \* useState<Client[]>
  syncText,       \* useState('') of the import prompt
  showSyncModal,  \* the import prompt is open
  lastDialog,     \* outcome of the alert or confirm the last handler raised, or "none"
  alerts,         \* useMemo `notifications` as last rendered
  utcOffset,      \* the device's time zone, hours east of UTC
  storageFull,    \* the origin's localStorage quota is used up: setItem throws
  pageFailed      \* an error left an effect uncaught: the component tree is gone

localVars == << booted, storage, clients, syncText, showSyncModal, lastDialog, alerts,
               storageFull, pageFailed >>

\* ------------------------------------------- the cloud revision: its state
Devices == {"d1", "d2"}

VARIABLES
  appClients,        \* per device: useState<Client[]> of src/App.tsx
  isCloudConnected,  \* per device: useState(false)
  db,                \* per device: cloudService's `db` is set
  bulkSync,          \* per device: what the pending one-second timer will push
  outbox,            \* per device: setDoc calls issued and not yet settled
  inbox,             \* per device: the snapshot the listener has yet to deliver
  docs,              \* the cloud collection 'clients', one document per id
  errorLogged,       \* console.error("Error saving client" / "Error batch syncing")
  appAlerts,         \* per device: useMemo `notifications` of src/App.tsx as last rendered
  reloading          \* per device: window.location.reload() was called, the page is going

cloudVars == << appClients, isCloudConnected, db, bulkSync, outbox, inbox, docs, errorLogged,
                appAlerts, reloading >>

vars == << now, utcOffset, chartVars, localVars, cloudVars >>

\* useState initializer of `clients`.
LoadClients(item, t) ==
  IF item.kind = "array"
  THEN [i \in 1..Len(item.items) |->
          [item.items[i] EXCEPT !.lastUpdated = TsOrNow(item.items[i], t)]]
  ELSE << >>

\* useEffect(() => localStorage.setItem('clients', JSON.stringify(clients)))
Persisted(list) == ArrayText(list)

\* handleExportData / handleCopyData / handleShareLink: JSON.stringify(clients)
ExportData(list) == ArrayText(list)

\* localStorage.setItem('clients', JSON.stringify(clients)): it throws when the
\* quota is used up, and the effect has no try around it.
SetItem ==
  IF storageFull
  THEN /\ pageFailed' = TRUE
       /\ UNCHANGED storage
  ELSE /\ storage' = Persisted(clients')
       /\ UNCHANGED pageFailed

\* useEffect(() => localStorage.setItem(...), [clients]) after a render in
\* which `clients` changed.
PersistEffect ==
  IF clients' = clients THEN UNCHANGED << storage, pageFailed >> ELSE SetItem

\* activeClients: what the list, and so every row button, is built from.
IsActive(id) == \E i \in 1..Len(clients) : clients[i].id = id /\ ~clients[i].isDeleted

\* A memo that is never recomputed.
RenderNever == alerts' = alerts

\* A render after `clients` changed: useMemo recomputes the notifications
\* (its dependency activeClients is itself recomputed from `clients`).
Render == alerts' = Notifications(ActiveClients(clients'), utcOffset)

\* No device runs the cloud revision.
CloudIdle ==
  /\ appClients = [d \in Devices |-> << >>]
  /\ isCloudConnected = [d \in Devices |-> FALSE]
  /\ db = [d \in Devices |-> FALSE]
  /\ bulkSync = [d \in Devices |-> << >>]
  /\ outbox = [d \in Devices |-> << >>]
  /\ inbox = [d \in Devices |-> << >>]
  /\ docs = [id \in Ids |-> << >>]
  /\ errorLogged = FALSE
  /\ appAlerts = [d \in Devices |-> << >>]
  /\ reloading = [d \in Devices |-> FALSE]

Init ==
  /\ booted = FALSE
  /\ now = 1
  /\ storage \in SavedItems
  /\ clients = << >>
  /\ syncText = EmptyText
  /\ showSyncModal = FALSE
  /\ lastDialog = "none"
  /\ alerts = << >>
  /\ utcOffset \in TzOffsets
  /\ storageFull = FALSE
  /\ pageFailed = FALSE
  /\ ChartIdle
  /\ CloudIdle

\* Page load: the state initializer and the three mount effects; the address
\* carries one of `links`.
MountWith(links) ==
  /\ ~booted /\ ~pageFailed
  /\ booted' = TRUE
  /\ clients' = StatusCheck(LoadClients(storage, now), utcOffset)
  /\ SetItem
  /\ \E link \in links :
       /\ syncText' = IF link.kind = "ok" THEN link.text ELSE syncText
       /\ showSyncModal' = (link.kind = "ok")
       /\ lastDialog' = IF link.kind = "invalid" THEN "badlink" ELSE "none"
  /\ UNCHANGED now
  /\ UNCHANGED << utcOffset, storageFull, chartVars, cloudVars >>
  /\ Render

Mount == MountWith(Links)

Tick ==
  /\ now < MaxClock
  /\ now' = now + 1
  /\ UNCHANGED << booted, storage, clients, syncText, showSyncModal, lastDialog >>
  /\ UNCHANGED << utcOffset, storageFull, pageFailed, chartVars, cloudVars >>
  /\ UNCHANGED alerts

\* ClientForm.handleSubmit for a new loan, then addClient.
addClient ==
  /\ booted /\ ~pageFailed
  /\ \E id \in Ids \ IdsOf(clients) :
       clients' = << Client(id, now, FALSE, FALSE, "Active") >> \o clients
  /\ PersistEffect
  /\ lastDialog' = "none"
  /\ UNCHANGED << booted, now, syncText, showSyncModal >>
  /\ UNCHANGED << utcOffset, storageFull, chartVars, cloudVars >>
  /\ Render

\* The record removeClient / handleDeleteClient put in place of client `c`.
DeletedClient(c, t) == [c EXCEPT !.isDeleted = TRUE, !.lastUpdated = t]

removeClient ==
  /\ booted /\ ~pageFailed
  /\ \E id \in Ids, confirm \in BOOLEAN :
       /\ IsActive(id)
       /\ clients' = IF confirm
                     THEN [i \in 1..Len(clients) |->
                             IF clients[i].id = id
                             THEN DeletedClient(clients[i], now)
                             ELSE clients[i]]
                     ELSE clients
       /\ lastDialog' = IF confirm THEN "none" ELSE "declinedRemove"
  /\ PersistEffect
  /\ UNCHANGED << booted, now, syncText, showSyncModal >>
  /\ UNCHANGED << utcOffset, storageFull, chartVars, cloudVars >>
  /\ Render

ToggleInstallments(insts, n) ==
  [k \in 1..Len(insts) |->
     IF insts[k].number = n THEN [insts[k] EXCEPT !.isPaid = ~insts[k].isPaid]
     ELSE insts[k]]

\* ClientForm.handleSubmit on an existing loan with its fields left as they
\* are: the id, the status and each isPaid are kept.
ClientToSave(initialData, t) ==
  [initialData EXCEPT !.isDeleted = FALSE, !.lastUpdated = t]

\* A toggle that leaves lastUpdated alone.
ToggledClientNoStamp(client, n, t, z) ==
  LET updatedInstallments == ToggleInstallments(client.installmentsList, n)
  IN  [client EXCEPT !.installmentsList = updatedInstallments,
                     !.status = RecalcStatus(updatedInstallments, z)]

\* The object handleTogglePayment returns for the client it toggles.
ToggledClient(client, n, t, z) ==
  LET updatedInstallments == ToggleInstallments(client.installmentsList, n)
  IN  [client EXCEPT !.installmentsList = updatedInstallments,
                     !.status = RecalcStatus(updatedInstallments, z),
                     !.lastUpdated = t]

handleTogglePayment ==
  /\ booted /\ ~pageFailed
  /\ \E id \in Ids :
       /\ IsActive(id)
       /\ \E n \in {Find(clients, id).installmentsList[k].number :
                      k \in 1..Len(Find(clients, id).installmentsList)} :
            clients' = [i \in 1..Len(clients) |->
                          IF clients[i].id # id THEN clients[i]
                          ELSE ToggledClient(clients[i], n, now, utcOffset)]
  /\ PersistEffect
  /\ lastDialog' = "none"
  /\ UNCHANGED << booted, now, syncText, showSyncModal >>
  /\ UNCHANGED << utcOffset, storageFull, chartVars, cloudVars >>
  /\ Render

\* "Colar Dados": opens the prompt with an empty text.
handleOpenSyncModal ==
  /\ booted /\ ~pageFailed
  /\ syncText' = EmptyText
  /\ showSyncModal' = TRUE
  /\ lastDialog' = "none"
  /\ UNCHANGED << booted, now, storage, clients >>
  /\ UNCHANGED << utcOffset, storageFull, pageFailed, chartVars, cloudVars >>
  /\ UNCHANGED alerts

\* The prompt's textarea (onChange): one of `texts` is typed or pasted.
EditSyncTextTo(texts) ==
  /\ booted /\ ~pageFailed /\ showSyncModal
  /\ \E t \in texts \cup {EmptyText} : syncText' = t
  /\ lastDialog' = "none"
  /\ UNCHANGED << booted, now, storage, clients, showSyncModal >>
  /\ UNCHANGED << utcOffset, storageFull, pageFailed, chartVars, cloudVars >>
  /\ UNCHANGED alerts

EditSyncText == EditSyncTextTo(Texts)

\* A file import that merges the file's records right away, without the prompt.
handleImportDataApplied(texts) ==
  /\ booted /\ ~pageFailed
  /\ \E content \in texts :
       IF content.kind = "garbage"
       THEN /\ lastDialog' = "badfile"
            /\ UNCHANGED << syncText, showSyncModal, clients >>
       ELSE /\ syncText' = content
            /\ clients' = Merge(clients, content.items)
            /\ lastDialog' = "none"
            /\ UNCHANGED showSyncModal
  /\ PersistEffect
  /\ UNCHANGED << booted, now >>
  /\ UNCHANGED << utcOffset, storageFull, chartVars, cloudVars >>
  /\ Render

\* File import: the reader's onload, the file holding one of `texts`.
handleImportDataOf(texts) ==
  /\ booted /\ ~pageFailed
  /\ \E content \in texts :
       IF content.kind = "garbage"
       THEN /\ lastDialog' = "badfile"
            /\ UNCHANGED << syncText, showSyncModal >>
       ELSE /\ syncText' = content
            /\ showSyncModal' = TRUE
            /\ lastDialog' = "none"
  /\ UNCHANGED << booted, now, storage, clients >>
  /\ UNCHANGED << utcOffset, storageFull, pageFailed, chartVars, cloudVars >>
  /\ UNCHANGED alerts

handleImportData == handleImportDataOf(Texts)

\* The prompt's X button.
CloseSyncModal ==
  /\ booted /\ ~pageFailed /\ showSyncModal
  /\ showSyncModal' = FALSE
  /\ lastDialog' = "none"
  /\ UNCHANGED << booted, now, storage, clients, syncText >>
  /\ UNCHANGED << utcOffset, storageFull, pageFailed, chartVars, cloudVars >>
  /\ UNCHANGED alerts

\* processImportedData(syncText, mode): the two buttons of the prompt.
processImportedData(mode, confirm) ==
  /\ booted /\ ~pageFailed /\ showSyncModal /\ syncText.kind # "empty"
  /\ IF syncText.kind = "garbage"
     THEN /\ lastDialog' = "error"
          /\ UNCHANGED << clients, showSyncModal >>
     ELSE IF syncText.kind # "array"
     THEN /\ lastDialog' = "invalid"
          /\ UNCHANGED << clients, showSyncModal >>
     ELSE IF mode = "replace"
     THEN IF confirm
          THEN /\ clients' = ReplaceAll(clients, syncText.items)
               /\ showSyncModal' = FALSE
               /\ lastDialog' = "replaced"
          ELSE /\ lastDialog' = "declinedReplace"
               /\ UNCHANGED << clients, showSyncModal >>
     ELSE /\ clients' = Merge(clients, syncText.items)
          /\ showSyncModal' = FALSE
          /\ lastDialog' = "merged"
  /\ PersistEffect
  /\ UNCHANGED << booted, now, syncText >>
  /\ UNCHANGED << utcOffset, storageFull, chartVars, cloudVars >>
  /\ Render

ImportMerge == processImportedData("merge", FALSE)

ImportReplace == \E confirm \in BOOLEAN : processImportedData("replace", confirm)

Next ==
  \/ Mount
  \/ Tick
  \/ addClient
  \/ removeClient
  \/ handleTogglePayment
  \/ handleOpenSyncModal
  \/ EditSyncText
  \/ handleImportData
  \/ CloseSyncModal
  \/ ImportMerge
  \/ ImportReplace

Spec == Init /\ [][Next]_vars

\* ------------------------------------------- imports of foreign payloads
\* The local revision fed with payloads that no device exported.
NextForeign ==
  \/ MountWith(ForeignLinks)
  \/ addClient
  \/ handleOpenSyncModal
  \/ EditSyncTextTo(ForeignTexts)
  \/ handleImportDataOf(ForeignTexts)
  \/ CloseSyncModal
  \/ ImportMerge
  \/ ImportReplace

SpecForeign == Init /\ [][NextForeign]_vars

\* ------------------------------------------------ a storage that fills up
\* The origin's storage runs out of room (other pages of the origin, or the
\* records themselves, used the quota up).
StorageFills ==
  /\ ~storageFull
  /\ storageFull' = TRUE
  /\ UNCHANGED << now, utcOffset, booted, storage, clients, syncText, showSyncModal,
                  lastDialog, alerts, pageFailed, chartVars, cloudVars >>

\* The local revision on such a storage.
NextQuota ==
  \/ MountWith({NoLink})
  \/ Tick
  \/ addClient
  \/ removeClient
  \/ handleTogglePayment
  \/ StorageFills

SpecQuota == Init /\ [][NextQuota]_vars

\* ------------------------------------------------------ the first revision
\* The first App component of src/App.tsx: the record list in localStorage,
\* no tombstones, no timestamps written by the handlers, no status engine.

\* useState initializer: saved ? JSON.parse(saved) : []
LoadFirst(item) == IF item.kind = "array" THEN item.items ELSE << >>

\* Page load. JSON.parse throws on a malformed item, and a parsed value that
\* is not an array breaks the first render (clients.reduce): no page.
MountFirst ==
  /\ ~booted /\ ~pageFailed /\ lastDialog # "crashed"
  /\ IF storage.kind \in {"garbage", "value"}
     THEN /\ lastDialog' = "crashed"
          /\ UNCHANGED << booted, clients, storage, pageFailed >>
     ELSE /\ booted' = TRUE
          /\ clients' = LoadFirst(storage)
          /\ SetItem
          /\ lastDialog' = "none"
  /\ UNCHANGED << now, syncText, showSyncModal, alerts >>
  /\ UNCHANGED << utcOffset, storageFull, chartVars, cloudVars >>

addClientFirst ==
  /\ booted /\ ~pageFailed
  /\ \E id \in Ids \ IdsOf(clients) :
       clients' = << Client(id, now, FALSE, FALSE, "Active") >> \o clients
  /\ PersistEffect
  /\ UNCHANGED << booted, now, syncText, showSyncModal, lastDialog, alerts >>
  /\ UNCHANGED << utcOffset, storageFull, chartVars, cloudVars >>

\* setClients(clients.filter(c => c.id !== id))
removeClientFirst ==
  /\ booted /\ ~pageFailed
  /\ \E id \in IdsOf(clients) :
       clients' = SelectSeq(clients, LAMBDA c : c.id # id)
  /\ PersistEffect
  /\ UNCHANGED << booted, now, syncText, showSyncModal, lastDialog, alerts >>
  /\ UNCHANGED << utcOffset, storageFull, chartVars, cloudVars >>

handleTogglePaymentFirst ==
  /\ booted /\ ~pageFailed
  /\ \E id \in IdsOf(clients) :
       \E n \in {Find(clients, id).installmentsList[k].number :
                    k \in 1..Len(Find(clients, id).installmentsList)} :
         clients' = [i \in 1..Len(clients) |->
                       IF clients[i].id # id THEN clients[i]
                       ELSE [clients[i] EXCEPT !.installmentsList =
                               ToggleInstallments(clients[i].installmentsList, n)]]
  /\ PersistEffect
  /\ UNCHANGED << booted, now, syncText, showSyncModal, lastDialog, alerts >>
  /\ UNCHANGED << utcOffset, storageFull, chartVars, cloudVars >>

NextFirst ==
  \/ MountFirst
  \/ Tick
  \/ addClientFirst
  \/ removeClientFirst
  \/ handleTogglePaymentFirst

SpecFirst == Init /\ [][NextFirst]_vars

\* ------------------------------------------------------ the cloud revision
\* Number of user actions that change something (add, toggle, delete,
\* disconnect) the devices make in all; the clock moves on with each.
MaxEdits == 2

\* What onSnapshot hands to the callback: the documents in id order.
SnapshotOf(collection) == collection["a"] \o collection["b"]

\* The callback's map: `status: c.status || 'Active'` (isDeleted || false is
\* the identity on the booleans the records carry).
DefaultStatus(c) == IF c.status = "" THEN [c EXCEPT !.status = "Active"] ELSE c

\* A snapshot callback that merges by lastUpdated instead of replacing.
ApplySnapshotByTimestamp(prev, updatedClients) ==
  Merge(prev, [i \in 1..Len(updatedClients) |-> DefaultStatus(updatedClients[i])])

\* setClients(prev => updatedClients.map(...)) in the subscription callback.
ApplySnapshot(prev, updatedClients) ==
  [i \in 1..Len(updatedClients) |-> DefaultStatus(updatedClients[i])]

\* setDoc(doc(db, 'clients', client.id), client)
SetDoc(collection, client) == [collection EXCEPT ![client.id] = << client >>]

\* A render after a device's `clients` changed: the memo is recomputed.
RenderApp ==
  appAlerts' = [d \in Devices |-> AppNotifications(ActiveClients(appClients'[d]), utcOffset)]

\* activeClients of a device.
ActiveOn(d) == {appClients[d][i].id : i \in {k \in 1..Len(appClients[d]) : ~appClients[d][k].isDeleted}}

\* generateId() gives an id no device and no document carries.
UsedIds ==
  UNION { IdsOf(appClients[d]) \cup IdsOf(outbox[d]) \cup IdsOf(bulkSync[d]) : d \in Devices }
  \cup IdsOf(SnapshotOf(docs))

InitCloud ==
  /\ now = 1
  /\ utcOffset \in TzOffsets
  /\ booted = FALSE
  /\ storage = MissingItem
  /\ clients = << >>
  /\ syncText = EmptyText
  /\ showSyncModal = FALSE
  /\ lastDialog = "none"
  /\ alerts = << >>
  /\ storageFull = FALSE
  /\ pageFailed = FALSE
  /\ ChartIdle
  /\ appClients = [d \in Devices |-> IF d = "d1" THEN << Client("a", 1, FALSE, TRUE, "Completed") >>
                                      ELSE << >>]
  /\ isCloudConnected = [d \in Devices |-> FALSE]
  /\ db = [d \in Devices |-> FALSE]
  /\ bulkSync = [d \in Devices |-> << >>]
  /\ outbox = [d \in Devices |-> << >>]
  /\ inbox = [d \in Devices |-> << >>]
  /\ docs \in { [id \in Ids |-> << >>],
                [id \in Ids |-> IF id = "a" THEN << Client("a", 1, FALSE, FALSE, "") >> ELSE << >>] }
  /\ errorLogged = FALSE
  /\ appAlerts = [d \in Devices |-> AppNotifications(ActiveClients(appClients[d]), utcOffset)]
  /\ reloading = [d \in Devices |-> FALSE]

\* The effect "Initialize Cloud on Mount": initFirebase, then subscribeToClients.
\* The listener's first snapshot is the collection as it is.
InitCloudEffect(d) ==
  /\ ~isCloudConnected[d] /\ ~reloading[d]
  /\ \E success \in BOOLEAN :
       /\ isCloudConnected' = [isCloudConnected EXCEPT ![d] = success]
       /\ db' = [db EXCEPT ![d] = db[d] \/ success]
       /\ inbox' = IF success THEN [inbox EXCEPT ![d] = << SnapshotOf(docs) >>] ELSE inbox
  /\ UNCHANGED << now, utcOffset, chartVars, localVars, appClients, bulkSync, outbox, docs, errorLogged >>
  /\ UNCHANGED << appAlerts, reloading >>

\* handleCloudConfigSubmit with a config that parses: the effect above runs
\* again and, with active clients, the one-second bulk sync is armed.
handleCloudConfigSubmit(d) ==
  /\ ~isCloudConnected[d] /\ ~reloading[d]
  /\ \E success \in BOOLEAN :
       /\ isCloudConnected' = [isCloudConnected EXCEPT ![d] = success]
       /\ db' = [db EXCEPT ![d] = db[d] \/ success]
       /\ inbox' = IF success THEN [inbox EXCEPT ![d] = << SnapshotOf(docs) >>] ELSE inbox
  /\ bulkSync' = [bulkSync EXCEPT ![d] =
                    SelectSeq(appClients[d], LAMBDA c : ~c.isDeleted)]
  /\ UNCHANGED << now, utcOffset, chartVars, localVars, appClients, outbox, docs, errorLogged >>
  /\ UNCHANGED << appAlerts, reloading >>

\* The timer: if (isCloudEnabled()) syncAllToCloud(activeClients).
BulkSyncTimer(d) ==
  /\ bulkSync[d] # << >>
  /\ outbox' = IF db[d] THEN [outbox EXCEPT ![d] = outbox[d] \o bulkSync[d]] ELSE outbox
  /\ bulkSync' = [bulkSync EXCEPT ![d] = << >>]
  /\ UNCHANGED << now, utcOffset, chartVars, localVars, appClients, isCloudConnected, db, inbox, docs, errorLogged >>
  /\ UNCHANGED << appAlerts, reloading >>

\* A push that sends the record without the timestamp the handler wrote.
PushedWithoutTimestamp(d, client) ==
  [outbox EXCEPT ![d] = Append(outbox[d], [client EXCEPT !.lastUpdated = Undefined])]

\* saveClientToCloud(client) called by a handler.
Pushed(d, client) == [outbox EXCEPT ![d] = Append(outbox[d], client)]

handleAddClient(d) ==
  /\ now <= MaxEdits /\ ~reloading[d]
  /\ \E id \in Ids \ UsedIds :
       LET newClient == Client(id, now, FALSE, FALSE, "Active")
       IN  /\ appClients' = [appClients EXCEPT ![d] = Append(appClients[d], newClient)]
           /\ outbox' = IF isCloudConnected[d] THEN Pushed(d, newClient) ELSE outbox
  /\ now' = now + 1
  /\ UNCHANGED << utcOffset, chartVars, localVars, isCloudConnected, db, bulkSync, inbox, docs, errorLogged >>
  /\ RenderApp
  /\ UNCHANGED reloading

\* The handlers below read a variable that the state updater assigns; the
\* updater may run inside setClients (updaterRan) or only at the next render,
\* after the push check has seen `undefined`.
handleDeleteClient(d) ==
  /\ now <= MaxEdits /\ ~reloading[d]
  /\ \E id \in ActiveOn(d), confirm \in BOOLEAN, updaterRan \in BOOLEAN :
       IF confirm
       THEN LET c == Find(appClients[d], id)
                deletedClient == DeletedClient(c, now)
            IN  /\ appClients' = [appClients EXCEPT ![d] =
                     [i \in 1..Len(appClients[d]) |->
                        IF appClients[d][i].id = id THEN deletedClient ELSE appClients[d][i]]]
                /\ outbox' = IF isCloudConnected[d] /\ updaterRan
                             THEN Pushed(d, deletedClient) ELSE outbox
                /\ now' = now + 1
       ELSE UNCHANGED << appClients, outbox, now >>
  /\ UNCHANGED << utcOffset, chartVars, localVars, isCloudConnected, db, bulkSync, inbox, docs, errorLogged >>
  /\ RenderApp
  /\ UNCHANGED reloading

\* The object the cloud revision's handleTogglePayment builds.
UpdatedClient(client, n, t) ==
  LET updatedInstallments == ToggleInstallments(client.installmentsList, n)
      allPaid == \A k \in 1..Len(updatedInstallments) : updatedInstallments[k].isPaid
      newStatus == IF allPaid THEN "Completed"
                   ELSE IF client.status = "Completed" THEN "Active"
                   ELSE client.status
  IN  [client EXCEPT !.installmentsList = updatedInstallments,
                     !.status = newStatus,
                     !.lastUpdated = t]

handleTogglePaymentCloud(d) ==
  /\ now <= MaxEdits /\ ~reloading[d]
  /\ \E id \in ActiveOn(d), updaterRan \in BOOLEAN :
       LET client == Find(appClients[d], id)
       IN  \E n \in {client.installmentsList[k].number : k \in 1..Len(client.installmentsList)} :
             LET updatedClient == UpdatedClient(client, n, now)
             IN  /\ appClients' = [appClients EXCEPT ![d] =
                      [i \in 1..Len(appClients[d]) |->
                         IF appClients[d][i].id = id THEN updatedClient ELSE appClients[d][i]]]
                 /\ outbox' = IF isCloudConnected[d] /\ updaterRan
                              THEN Pushed(d, updatedClient) ELSE outbox
  /\ now' = now + 1
  /\ UNCHANGED << utcOffset, chartVars, localVars, isCloudConnected, db, bulkSync, inbox, docs, errorLogged >>
  /\ RenderApp
  /\ UNCHANGED reloading

\* A setDoc reaches the cloud; every listener gets the new collection.
PushApplied(d) ==
  /\ outbox[d] # << >>
  /\ docs' = SetDoc(docs, Head(outbox[d]))
  /\ outbox' = [outbox EXCEPT ![d] = Tail(outbox[d])]
  /\ inbox' = [e \in Devices |-> IF isCloudConnected[e] THEN << SnapshotOf(docs') >> ELSE inbox[e]]
  /\ UNCHANGED << now, utcOffset, chartVars, localVars, appClients, isCloudConnected, db, bulkSync, errorLogged >>
  /\ UNCHANGED << appAlerts, reloading >>

\* A catch that logs and then issues the same setDoc again.
PushFailedWithRetry(d) ==
  /\ outbox[d] # << >>
  /\ outbox' = [outbox EXCEPT ![d] = Append(Tail(outbox[d]), Head(outbox[d]))]
  /\ errorLogged' = TRUE
  /\ UNCHANGED << now, utcOffset, chartVars, localVars, appClients, isCloudConnected, db, bulkSync, inbox, docs >>
  /\ UNCHANGED << appAlerts, reloading >>

\* A setDoc rejects: the catch logs it and nothing else happens.
PushFailed(d) ==
  /\ outbox[d] # << >>
  /\ outbox' = [outbox EXCEPT ![d] = Tail(outbox[d])]
  /\ errorLogged' = TRUE
  /\ UNCHANGED << now, utcOffset, chartVars, localVars, appClients, isCloudConnected, db, bulkSync, inbox, docs >>
  /\ UNCHANGED << appAlerts, reloading >>

\* The listener calls onUpdate(clients): the subscription callback of App.
SnapshotDelivered(d) ==
  /\ inbox[d] # << >>
  /\ appClients' = [appClients EXCEPT ![d] = ApplySnapshot(appClients[d], Head(inbox[d]))]
  /\ inbox' = [inbox EXCEPT ![d] = << >>]
  /\ UNCHANGED << now, utcOffset, chartVars, localVars, isCloudConnected, db, bulkSync, outbox, docs, errorLogged >>
  /\ RenderApp
  /\ UNCHANGED reloading

\* useState initializer of `clients` in the cloud revision.
LoadAppClients(item, t) ==
  IF item.kind = "array"
  THEN [i \in 1..Len(item.items) |->
          [DefaultStatus(item.items[i]) EXCEPT !.lastUpdated = TsOrNow(item.items[i], t)]]
  ELSE << >>

\* "Desconectar": the saved config is removed, setCloudConfig(null) cleans the
\* effect up (unsubscribe), setIsCloudConnected(false), and the page is told
\* to reload.
handleDisconnectCloud(d) ==
  /\ now <= MaxEdits /\ isCloudConnected[d] /\ ~reloading[d]
  /\ now' = now + 1
  /\ isCloudConnected' = [isCloudConnected EXCEPT ![d] = FALSE]
  /\ inbox' = [inbox EXCEPT ![d] = << >>]
  /\ reloading' = [reloading EXCEPT ![d] = TRUE]
  /\ UNCHANGED << utcOffset, chartVars, localVars, appClients, db, bulkSync, outbox, docs, errorLogged,
                  appAlerts >>

\* The page loads again: the state initializers (clients from localStorage, no
\* saved config so cloudConfig = DEFAULT_FIREBASE_CONFIG) and the mount
\* effects (status check, cloud initialisation with that config). The timer
\* dies with the old page; a setDoc still on its way may or may not get out.
PageReload(d) ==
  /\ reloading[d]
  /\ reloading' = [reloading EXCEPT ![d] = FALSE]
  /\ appClients' = [appClients EXCEPT ![d] =
                      StatusCheck(LoadAppClients(Persisted(appClients[d]), now), utcOffset)]
  /\ bulkSync' = [bulkSync EXCEPT ![d] = << >>]
  /\ \E sent \in BOOLEAN : outbox' = IF sent THEN outbox ELSE [outbox EXCEPT ![d] = << >>]
  /\ \E success \in BOOLEAN :
       /\ isCloudConnected' = [isCloudConnected EXCEPT ![d] = success]
       /\ db' = [db EXCEPT ![d] = success]
       /\ inbox' = IF success THEN [inbox EXCEPT ![d] = << SnapshotOf(docs) >>] ELSE inbox
  /\ UNCHANGED << now, utcOffset, chartVars, localVars, docs, errorLogged >>
  /\ RenderApp

NextCloud ==
  \/ \E d \in Devices : InitCloudEffect(d)
  \/ \E d \in Devices : handleCloudConfigSubmit(d)
  \/ \E d \in Devices : BulkSyncTimer(d)
  \/ \E d \in Devices : handleAddClient(d)
  \/ \E d \in Devices : handleDeleteClient(d)
  \/ \E d \in Devices : handleTogglePaymentCloud(d)
  \/ \E d \in Devices : PushApplied(d)
  \/ \E d \in Devices : PushFailed(d)
  \/ \E d \in Devices : SnapshotDelivered(d)
  \/ \E d \in Devices : handleDisconnectCloud(d)
  \/ \E d \in Devices : PageReload(d)

SpecCloud == InitCloud /\ [][NextCloud]_vars

\* -------------------------------------------------------------- the chart
\* Number of loans the chart is drawn from.
MaxLoans == 2

InitChart ==
  /\ booted = TRUE
  /\ now = 1
  /\ storage = MissingItem
  /\ clients = << >>
  /\ syncText = EmptyText
  /\ showSyncModal = FALSE
  /\ lastDialog = "none"
  /\ alerts = << >>
  /\ storageFull = FALSE
  /\ pageFailed = FALSE
  /\ utcOffset = 2
  /\ CloudIdle
  /\ portfolio = << >>
  /\ progressionData = calculateProgression(portfolio)

\* A loan is added: useMemo recomputes progressionData from the new list.
AddLoan ==
  /\ Len(portfolio) < MaxLoans
  /\ \E loan \in Loans : portfolio' = Append(portfolio, loan)
  /\ progressionData' = calculateProgression(portfolio')
  /\ UNCHANGED << now, utcOffset, localVars, cloudVars >>

\* A loan leaves the list (deleted): the chart is recomputed without it.
DropLoan ==
  /\ \E k \in 1..Len(portfolio) :
       portfolio' = SubSeq(portfolio, 1, k - 1) \o SubSeq(portfolio, k + 1, Len(portfolio))
  /\ progressionData' = calculateProgression(portfolio')
  /\ UNCHANGED << now, utcOffset, localVars, cloudVars >>

NextChart ==
  \/ AddLoan
  \/ DropLoan

SpecChart == InitChart /\ [][NextChart]_vars

\* =================================================== import: merge, replace
\* Steps of the import prompt, recognised by what they leave behind.
MergeStep == showSyncModal /\ ~showSyncModal' /\ lastDialog' = "merged"

ReplaceStep == showSyncModal /\ ~showSyncModal' /\ lastDialog' = "replaced"

ReplaceDeclinedStep == showSyncModal /\ showSyncModal' /\ lastDialog' = "declinedReplace"

MountStep == ~booted /\ booted'

\* The local set and the incoming set of an import step.
Incoming == syncText.items

InBoth == IdsOf(clients) \cap IdsOf(Incoming)

HasTs(c) == c.lastUpdated # Undefined

AllHaveTs(list) == \A i \in 1..Len(list) : HasTs(list[i])

\* Some id has two different copies with the same lastUpdated in the two lists.
ConflictingTie(l1, l2) ==
  \E i \in 1..Len(l1), j \in 1..Len(l2) :
     /\ l1[i].id = l2[j].id
     /\ TsOf(l1[i]) = TsOf(l2[j])
     /\ l1[i] # l2[j]

\* C1: in a merge-mode import, for every id held by both sides (the copies
\* carrying a lastUpdated), the result holds the imported copy when its
\* lastUpdated is strictly greater and the local copy otherwise, a tie included.
C1_LastWriteWins ==
  [][MergeStep =>
       \A id \in InBoth :
          HasTs(Find(clients, id)) =>
            Find(clients', id) =
              IF TsOf(Find(Incoming, id)) > TsOf(Find(clients, id))
              THEN Find(Incoming, id)
              ELSE Find(clients, id)]_vars

\* A merge has run, and loan "a" is held in a copy that differs from the
\* imported copy of the same lastUpdated: the tie kept the local copy.
C1_Witness ==
  /\ lastDialog = "merged"
  /\ "a" \in InBoth
  /\ Find(clients, "a").lastUpdated = Find(Incoming, "a").lastUpdated
  /\ Find(clients, "a").lastUpdated > 0
  /\ Find(clients, "a") # Find(Incoming, "a")

\* C2: merge is idempotent: right after a merge-mode import of B, merging B
\* again gives the record set the first merge gave.
C2_Idempotent ==
  lastDialog = "merged" => Range(Merge(clients, Incoming)) = Range(clients)

\* C3 as stated: merge(A,B) and merge(B,A) hold the same records whenever A
\* and B carry lastUpdated values.
C3_Commutative ==
  [][(MergeStep /\ AllHaveTs(clients) /\ AllHaveTs(Incoming)) =>
       Range(clients') = Range(Merge(Incoming, clients))]_vars

\* C3 amended: merge(A,B) and merge(B,A) hold the same records whenever A and
\* B carry lastUpdated values and no id has two different copies with the
\* same lastUpdated in A and B.
C3_CommutativeWithoutTies ==
  [][(/\ MergeStep /\ AllHaveTs(clients) /\ AllHaveTs(Incoming)
      /\ ~ConflictingTie(clients, Incoming)) =>
       Range(clients') = Range(Merge(Incoming, clients))]_vars

\* A merge has run in which the imported copy of loan "a" replaced an older
\* local one while loan "b", absent from the import, stayed.
C3_Witness ==
  /\ lastDialog = "merged"
  /\ AllHaveTs(clients) /\ AllHaveTs(Incoming)
  /\ IdsOf(Incoming) = {"a"}
  /\ IdsOf(clients) = {"a", "b"}
  /\ Find(clients, "a") = Find(Incoming, "a")
  /\ Find(clients, "a").lastUpdated = MaxClock

\* C4 as stated (the incoming sets carrying lastUpdated values): importing B
\* then C leaves the record set that importing C then B leaves.
C4_OrderIndependent ==
  [][MergeStep =>
       \A C \in ExportedLists :
          (AllHaveTs(Incoming) /\ AllHaveTs(C)) =>
            Range(Merge(clients', C)) = Range(Merge(Merge(clients, C), Incoming))]_vars

\* C4 amended: importing B then C leaves the record set that importing C then
\* B leaves, whenever B and C carry lastUpdated values and no id has two
\* different copies with the same lastUpdated in B and C.
C4_OrderIndependentWithoutTies ==
  [][MergeStep =>
       \A C \in ExportedLists :
          (AllHaveTs(Incoming) /\ AllHaveTs(C) /\ ~ConflictingTie(Incoming, C)) =>
            Range(Merge(clients', C)) = Range(Merge(Merge(clients, C), Incoming))]_vars

\* A merge of a loan "a" stamped 1 has run on a device that did not hold it;
\* a second import can still bring the copy stamped MaxClock.
C4_Witness ==
  /\ lastDialog = "merged"
  /\ Len(Incoming) = 1
  /\ Incoming[1].id = "a"
  /\ Incoming[1].lastUpdated = 1
  /\ Incoming[1].isDeleted
  /\ clients = Incoming

\* C5: in a merge-mode import, for every id held by both sides the result is
\* deleted exactly when the winning copy is: an imported tombstone with the
\* greater lastUpdated deletes, an older or equally old one does not, and a
\* newer imported live copy revives.
C5_TombstonePropagates ==
  [][MergeStep =>
       \A id \in InBoth :
          /\ (Find(Incoming, id).isDeleted
                /\ TsOf(Find(Incoming, id)) > TsOf(Find(clients, id)))
               => (Find(clients', id).isDeleted /\ Find(clients', id) = Find(Incoming, id))
          /\ Find(clients', id).isDeleted =
               IF TsOf(Find(Incoming, id)) > TsOf(Find(clients, id))
               THEN Find(Incoming, id).isDeleted
               ELSE Find(clients, id).isDeleted]_vars

\* A merge has run and the device holds the imported tombstone of loan "a",
\* stamped MaxClock, next to its own loan "b".
C5_Witness ==
  /\ lastDialog = "merged"
  /\ "a" \in InBoth
  /\ Find(Incoming, "a").isDeleted
  /\ Find(Incoming, "a").lastUpdated = MaxClock
  /\ Find(clients, "a") = Find(Incoming, "a")
  /\ "b" \in IdsOf(clients) \ IdsOf(Incoming)

\* C6: in a merge-mode import an id held by one side only passes through
\* untouched, and the result holds exactly one record for each id of either side.
C6_PassThrough ==
  [][MergeStep =>
       /\ \A id \in IdsOf(Incoming) \ IdsOf(clients) :
             Find(clients', id) = Find(Incoming, id)
       /\ \A id \in IdsOf(clients) \ IdsOf(Incoming) :
             Find(clients', id) = Find(clients, id)
       /\ IdsOf(clients') = IdsOf(clients) \cup IdsOf(Incoming)
       /\ Len(clients') = Cardinality(IdsOf(clients'))]_vars

\* C7: a copy without lastUpdated loses a merge against a copy of the same id
\* with a positive lastUpdated, be it the imported copy, the local copy, or a
\* local copy that the page load read from storage without lastUpdated.
C7_MissingTimestampLoses ==
  [][/\ MergeStep =>
          \A id \in InBoth :
             /\ (~HasTs(Find(clients, id)) /\ Find(Incoming, id).lastUpdated > 0)
                  => Find(clients', id) = Find(Incoming, id)
             /\ (~HasTs(Find(Incoming, id)) /\ Find(clients, id).lastUpdated > 0)
                  => Find(clients', id) = Find(clients, id)
     /\ (MountStep /\ storage.kind = "array") =>
          \A B \in ExportedLists :
             \A id \in IdsOf(storage.items) \cap IdsOf(B) :
                (~HasTs(Find(storage.items, id)) /\ Find(B, id).lastUpdated > 0)
                   => Find(Merge(clients', B), id) = Find(B, id)]_vars

\* C8: a confirmed replace-mode import leaves exactly the imported records,
\* a declined one leaves the local records as they were.
C8_Replace ==
  [][/\ ReplaceStep => clients' = Incoming
     /\ ReplaceDeclinedStep => clients' = clients]_vars

\* A replace has run on a device: what it holds is the import, loan "a" only.
C8_Witness ==
  /\ lastDialog = "replaced"
  /\ clients = Incoming
  /\ IdsOf(clients) = {"a"}

\* ============================================================ cloud mirror
\* The step in which a device's listener delivers its pending snapshot.
SnapshotStep(d) == inbox[d] # << >> /\ inbox'[d] = << >> /\ isCloudConnected'[d]

\* C9: every delivered snapshot replaces the device's whole record list by
\* the snapshot's records, a missing status defaulted to Active, whatever the
\* device held and whatever the lastUpdated values are.
C9_SnapshotReplaces ==
  [][\A d \in Devices :
       SnapshotStep(d) =>
         LET snap == Head(inbox[d])
         IN  /\ Len(appClients'[d]) = Len(snap)
             /\ \A i \in 1..Len(snap) :
                  appClients'[d][i] =
                    IF snap[i].status = "" THEN [snap[i] EXCEPT !.status = "Active"]
                    ELSE snap[i]]_vars

\* Device d1 started with its own paid copy of loan "a" and, connected and
\* with its snapshot delivered, holds the cloud's unpaid copy with the status
\* defaulted.
C9_Witness ==
  /\ isCloudConnected["d1"]
  /\ inbox["d1"] = << >>
  /\ docs["a"] = << Client("a", 1, FALSE, FALSE, "") >>
  /\ appClients["d1"] = << Client("a", 1, FALSE, FALSE, "Active") >>

\* Every device is connected, no push failed, and nothing is on its way:
\* no push, no snapshot, no armed bulk sync.
Quiescent ==
  /\ ~errorLogged
  /\ \A d \in Devices :
       /\ isCloudConnected[d]
       /\ outbox[d] = << >>
       /\ inbox[d] = << >>
       /\ bulkSync[d] = << >>

\* C10: once every issued push has been applied and every snapshot has been
\* delivered, all connected devices hold the cloud's record set.
C10_Converged ==
  Quiescent =>
    \A d \in Devices :
       Range(appClients[d]) = Range(ApplySnapshot(<< >>, SnapshotOf(docs)))

\* ------------------------------------------------ the write-then-notify race
\* A handler of device d changed a record and issued its push.
WriteStep(d) == now' = now + 1 /\ Len(outbox'[d]) = Len(outbox[d]) + 1

\* The record that push carries.
Written(d) == outbox'[d][Len(outbox'[d])]

\* The device holds exactly the cloud's records.
InSync(d) == Range(appClients[d]) = Range(ApplySnapshot(appClients[d], SnapshotOf(docs)))

\* C11 as stated: when a device's write is followed by the snapshot the cloud
\* produces from that write, the device's record set after the snapshot is
\* the set right after the write, and delivering a snapshot a second time
\* changes nothing.
C11_WriteThenNotifyAlways ==
  [][\A d \in Devices :
       /\ WriteStep(d) =>
            LET afterWrite == appClients'[d]
                echo == SnapshotOf(SetDoc(docs, Written(d)))
                once == ApplySnapshot(afterWrite, echo)
            IN  /\ Range(once) = Range(afterWrite)
                /\ ApplySnapshot(once, echo) = once
       /\ SnapshotStep(d) =>
            ApplySnapshot(appClients'[d], Head(inbox[d])) = appClients'[d]]_vars

\* C11 amended: when a device's write is followed by the snapshot the cloud
\* produces from that write, the written record is still held as written; if
\* the device held the cloud's records before the write, the whole record set
\* after the snapshot is the set right after the write; and delivering a
\* snapshot a second time changes nothing.
C11_WriteThenNotify ==
  [][\A d \in Devices :
       /\ WriteStep(d) =>
            LET afterWrite == appClients'[d]
                echo == SnapshotOf(SetDoc(docs, Written(d)))
                once == ApplySnapshot(afterWrite, echo)
            IN  /\ Find(afterWrite, Written(d).id) \in Range(once)
                /\ InSync(d) => Range(once) = Range(afterWrite)
                /\ ApplySnapshot(once, echo) = once
       /\ SnapshotStep(d) =>
            ApplySnapshot(appClients'[d], Head(inbox[d])) = appClients'[d]]_vars

\* Device d1, alone on the cloud, added loan "b", its push was applied and
\* the snapshot that carries it was delivered: d1 holds the cloud's records.
C11_Witness ==
  /\ isCloudConnected["d1"] /\ ~isCloudConnected["d2"] /\ ~db["d2"]
  /\ appClients["d2"] = << >>
  /\ outbox["d1"] = << >> /\ inbox["d1"] = << >>
  /\ docs["b"] # << >>
  /\ "b" \in IdsOf(appClients["d1"])
  /\ Range(appClients["d1"]) = Range(ApplySnapshot(<< >>, SnapshotOf(docs)))

\* ------------------------------------------------------- optimistic writes
\* The first push that fails: the catch logs it.
FailStep == ~errorLogged /\ errorLogged'

\* C12: a write is in the local record set before its push settles; when the
\* push fails the local set, the cloud and the pending snapshots stay as they
\* are, no push is issued again and the failure is only logged; the local
\* copy changes only by a later write, a delivered snapshot or the status
\* check of a page load.
C12_OptimisticWrite ==
  [][/\ \A d \in Devices : WriteStep(d) => Written(d) \in Range(appClients'[d])
     /\ FailStep =>
          /\ appClients' = appClients
          /\ docs' = docs
          /\ inbox' = inbox
          /\ \A d \in Devices : Len(outbox'[d]) <= Len(outbox[d])
          /\ \E d \in Devices : Len(outbox'[d]) < Len(outbox[d])
     /\ \A d \in Devices :
          appClients'[d] # appClients[d] =>
            now' = now + 1 \/ SnapshotStep(d) \/ (reloading[d] /\ ~reloading'[d])]_vars

\* Device d1 added loan "b" while connected, the push failed and was logged,
\* nothing is on its way, and d1 still holds the loan the cloud never got.
C12_Witness ==
  /\ errorLogged
  /\ isCloudConnected["d1"]
  /\ outbox["d1"] = << >> /\ inbox["d1"] = << >>
  /\ docs["b"] = << >>
  /\ "b" \in IdsOf(appClients["d1"])

\* -------------------------------------------------------------- disconnect
\* handleDisconnectCloud ran on device d.
TeardownStep(d) == ~reloading[d] /\ reloading'[d]

\* The page load that follows it.
ReloadStep(d) == reloading[d] /\ ~reloading'[d]

\* C13: a disconnect releases the subscription (the device is not connected
\* and no snapshot is pending for it), and the device is still without a
\* subscription when the page has loaded again, so that no snapshot reaches
\* its record set afterwards.
C13_TornDown ==
  [][\A d \in Devices :
       (TeardownStep(d) \/ ReloadStep(d)) =>
          ~isCloudConnected'[d] /\ inbox'[d] = << >>]_vars

\* ------------------------------------------------------------- soft delete
\* C14: a delete only sets isDeleted and stamps lastUpdated with the clock on
\* the deleted record, every other field and record staying as it was, and no
\* step other than a confirmed replace import takes an id out of a device's
\* record set.
C14_SoftDelete ==
  [][/\ booted => (IdsOf(clients) \subseteq IdsOf(clients') \/ ReplaceStep)
     /\ \A d \in Devices : IdsOf(appClients[d]) \subseteq IdsOf(appClients'[d])
     /\ \A i \in 1..Len(clients) :
          (/\ Len(clients') = Len(clients) /\ lastDialog' = "none"
           /\ ~clients[i].isDeleted /\ clients'[i].isDeleted)
          => clients' = [clients EXCEPT ![i] = [@ EXCEPT !.isDeleted = TRUE,
                                                          !.lastUpdated = now]]
     /\ \A d \in Devices : \A i \in 1..Len(appClients[d]) :
          (/\ Len(appClients'[d]) = Len(appClients[d]) /\ now' = now + 1
           /\ ~appClients[d][i].isDeleted /\ appClients'[d][i].isDeleted)
          => appClients'[d] = [appClients[d] EXCEPT ![i] = [@ EXCEPT !.isDeleted = TRUE,
                                                                     !.lastUpdated = now]]
    ]_vars

\* -------------------------------------------------- tombstones and the views
LiveIds(list) == {list[i].id : i \in {k \in 1..Len(list) : ~list[k].isDeleted}}

\* The user-facing derivations of a record list show live records only.
ViewsHideTombstones(list, z) ==
  LET active == ActiveClients(list)
  IN  /\ IdsOf(active) = LiveIds(list)
      /\ \A k \in 1..Len(active) : ~active[k].isDeleted
      /\ {Notifications(active, z)[k].clientId : k \in 1..Len(Notifications(active, z))}
           \subseteq LiveIds(list)
      /\ {AppNotifications(active, z)[k].clientName : k \in 1..Len(AppNotifications(active, z))}
           \subseteq LiveIds(list)
      /\ IdsOf(OverdueClientsSummary(active, z)) \subseteq LiveIds(list)
      /\ SummaryActiveClients(active) = Cardinality(LiveIds(list))

\* C15: no deleted record shows in a user-facing derivation (the active list,
\* the notifications as computed and as last rendered, the overdue summary,
\* the count of the financial summary; the projection is computed from the
\* same active list), while the export carries the full record set, and a
\* merge import works on the full sets: every id of either side, deleted or
\* not, is in the result.
C15_TombstonesHidden ==
  /\ [](/\ ViewsHideTombstones(clients, utcOffset)
        /\ \A k \in 1..Len(alerts) : alerts[k].clientId \in LiveIds(clients)
        /\ \A d \in Devices : ViewsHideTombstones(appClients[d], utcOffset)
        /\ Range(ExportData(clients).items) = Range(clients))
  /\ [][MergeStep => IdsOf(clients') = IdsOf(clients) \cup IdsOf(Incoming)]_vars

\* The unpaid, overdue loan "a" is deleted, the unpaid loan "b" is live, and
\* the notifications rendered hold the one alert of "b".
C15_Witness ==
  /\ booted
  /\ \E i \in 1..Len(clients) :
       /\ clients[i].id = "a" /\ clients[i].isDeleted
       /\ ~clients[i].installmentsList[1].isPaid
  /\ Len(alerts) = 1 /\ alerts[1].clientId = "b"

\* ------------------------------------------------------ the mutation stamp
\* A toggle or a confirmed delete of the local revision.
MutationStep ==
  /\ booted /\ booted' /\ lastDialog' = "none"
  /\ Len(clients') = Len(clients) /\ clients' # clients

\* A toggle or a delete on device d of the cloud revision.
MutationStepOn(d) ==
  /\ now' = now + 1
  /\ Len(appClients'[d]) = Len(appClients[d]) /\ appClients'[d] # appClients[d]

Changed(before, after) == {i \in 1..Len(before) : after[i] # before[i]}

\* The mutated record, and only it, carries the clock afterwards.
StampedWithClock(before, after, t) ==
  /\ Cardinality(Changed(before, after)) = 1
  /\ \A i \in Changed(before, after) : after[i].lastUpdated = t

\* C16 as stated: every toggle, delete and form edit writes the clock into
\* lastUpdated of the mutated record and of no other, and the new value is at
\* least the value the record carried before.
C16_StampNeverDecreases ==
  [][/\ MutationStep =>
          /\ StampedWithClock(clients, clients', now)
          /\ \A i \in Changed(clients, clients') :
               clients'[i].lastUpdated >= TsOf(clients[i])
     /\ \A d \in Devices : MutationStepOn(d) =>
          /\ StampedWithClock(appClients[d], appClients'[d], now)
          /\ \A i \in Changed(appClients[d], appClients'[d]) :
               appClients'[d][i].lastUpdated >= TsOf(appClients[d][i])
     /\ \A i \in 1..Len(clients) :
          /\ ClientToSave(clients[i], now).lastUpdated = now
          /\ ClientToSave(clients[i], now).lastUpdated >= TsOf(clients[i])]_vars

\* C16 amended: every toggle, delete and form edit writes the clock into
\* lastUpdated of the mutated record and of no other; the new value is at
\* least the old one whenever the old one is not ahead of the clock.
C16_StampIsClock ==
  [][/\ MutationStep =>
          /\ StampedWithClock(clients, clients', now)
          /\ \A i \in Changed(clients, clients') :
               TsOf(clients[i]) <= now => clients'[i].lastUpdated >= TsOf(clients[i])
     /\ \A d \in Devices : MutationStepOn(d) =>
          /\ StampedWithClock(appClients[d], appClients'[d], now)
          /\ \A i \in Changed(appClients[d], appClients'[d]) :
               TsOf(appClients[d][i]) <= now
                 => appClients'[d][i].lastUpdated >= TsOf(appClients[d][i])
     /\ \A i \in 1..Len(clients) :
          ClientToSave(clients[i], now).lastUpdated = now]_vars

\* The clock reads 1, the import prompt was closed on a payload that holds
\* loan "a" unpaid with stamp 2, and the page holds "a" paid with stamp 1: a
\* toggle wrote the clock over a stamp that may have been ahead of it.
C16_Witness ==
  /\ booted /\ now = 1 /\ ~showSyncModal /\ lastDialog = "none"
  /\ syncText = ArrayText(<< Client("a", 2, FALSE, FALSE, "Late") >>)
  /\ clients = << Client("a", 1, FALSE, TRUE, "Completed") >>

\* ------------------------------------------------------- status after toggle
\* deriveStatus(installments, today) on calendar days: Completed when every
\* installment is paid, else Late when an unpaid one fell due before today,
\* else Active.
DeriveStatus(insts) ==
  IF \A k \in 1..Len(insts) : insts[k].isPaid THEN "Completed"
  ELSE IF \E k \in 1..Len(insts) : ~insts[k].isPaid /\ insts[k].dueDate < Today THEN "Late"
  ELSE "Active"

\* The records a step toggled a payment of.
Toggled(before, after) ==
  {i \in Changed(before, after) : after[i].installmentsList # before[i].installmentsList}

\* C17: after every payment toggle the toggled record's stored status is
\* deriveStatus of its installments and today.
C17_ToggleDerivesStatus ==
  [][/\ MutationStep =>
          \A i \in Toggled(clients, clients') :
             clients'[i].status = DeriveStatus(clients'[i].installmentsList)
     /\ \A d \in Devices : MutationStepOn(d) =>
          \A i \in Toggled(appClients[d], appClients'[d]) :
             appClients'[d][i].status = DeriveStatus(appClients'[d][i].installmentsList)]_vars

\* ------------------------------------------------------------ notifications
\* Warning windows a user could configure, in days.
WarningWindows == {0, 1, 2}

\* The unpaid installments of the live records of a list, as pairs of record
\* and installment.
Unpaid(list) ==
  {p \in Range(list) \X UNION {Range(c.installmentsList) : c \in Range(list)} :
     /\ ~p[1].isDeleted
     /\ p[2] \in Range(p[1].installmentsList)
     /\ ~p[2].isPaid}

\* What the claim asks of one unpaid installment under window w: overdue with
\* its negative day count, due with a count from 0 to w, or not reported.
\* `sev` and `days` read an entry, `about` tells the entries of the
\* installment.
Windowed(entries, about(_), sev(_), days(_), inst, w) ==
  LET n == inst.dueDate - Today
      mine == {k \in 1..Len(entries) : about(entries[k])}
  IN  IF n < 0 THEN \E k \in mine : sev(entries[k]) = "overdue" /\ days(entries[k]) = n
      ELSE IF n <= w THEN \E k \in mine : sev(entries[k]) = "due" /\ days(entries[k]) = n
      ELSE mine = {}

\* The local revision shows the severity by the sign of daysDue.
SeverityOf(e) == IF e.daysDue < 0 THEN "overdue" ELSE "due"

\* C18: for every warning window w and every unpaid installment of a live
\* record, with daysUntilDue = dueDate - today in calendar days: it is
\* reported overdue with that negative count when daysUntilDue < 0, reported
\* due with that count when 0 <= daysUntilDue <= w, and not reported at all
\* when daysUntilDue > w.
C18_Windowing ==
  \A w \in WarningWindows :
    /\ booted =>
         \A p \in Unpaid(clients) :
            Windowed(alerts,
                     LAMBDA e : e.clientId = p[1].id /\ e.installmentNumber = p[2].number,
                     SeverityOf, LAMBDA e : e.daysDue, p[2], w)
    /\ \A d \in Devices : \A p \in Unpaid(appClients[d]) :
            Windowed(appAlerts[d],
                     LAMBDA e : e.clientName = p[1].id /\ e.installment = p[2].number,
                     LAMBDA e : e.status, LAMBDA e : e.days, p[2], w)

\* C19: the notification list has an entry only for an unpaid installment of
\* a record that is not deleted, and it is the list computed from the record
\* set as it is now.
C19_OnlyLiveUnpaid ==
  /\ \A k \in 1..Len(alerts) :
       \E p \in Unpaid(clients) :
          alerts[k].clientId = p[1].id /\ alerts[k].installmentNumber = p[2].number
  /\ booted => alerts = Notifications(ActiveClients(clients), utcOffset)
  /\ \A d \in Devices :
       /\ \A k \in 1..Len(appAlerts[d]) :
            \E p \in Unpaid(appClients[d]) :
               /\ appAlerts[d][k].clientName = p[1].id
               /\ appAlerts[d][k].installment = p[2].number
       /\ appAlerts[d] = AppNotifications(ActiveClients(appClients[d]), utcOffset)

\* Loan "a" is live and paid, loan "b" is unpaid and deleted, both stamped
\* by the clock at 2, and no alert is shown.
C19_Witness ==
  /\ booted /\ now = 2
  /\ Client("a", 2, FALSE, TRUE, "Completed") \in Range(clients)
  /\ \E st \in {"Active", "Late"} : Client("b", 2, TRUE, FALSE, st) \in Range(clients)
  /\ alerts = << >>

\* Position of a record in the iteration order of the notification logic.
PlaceOf(list, id) == CHOOSE i \in 1..Len(ActiveClients(list)) : ActiveClients(list)[i].id = id

\* C20: in the notification list overdue entries precede due entries, each
\* group is in ascending day count, and entries with the same count are in
\* the order the records and installments were gone through.
C20_Ordered ==
  /\ \A i, j \in 1..Len(alerts) :
       i < j =>
         /\ alerts[i].daysDue <= alerts[j].daysDue
         /\ alerts[i].daysDue = alerts[j].daysDue =>
              \/ PlaceOf(clients, alerts[i].clientId) < PlaceOf(clients, alerts[j].clientId)
              \/ /\ alerts[i].clientId = alerts[j].clientId
                 /\ alerts[i].installmentNumber < alerts[j].installmentNumber
  /\ \A d \in Devices : \A i, j \in 1..Len(appAlerts[d]) :
       i < j =>
         /\ ~(appAlerts[d][i].status = "due" /\ appAlerts[d][j].status = "overdue")
         /\ appAlerts[d][i].status = appAlerts[d][j].status =>
              appAlerts[d][i].days <= appAlerts[d][j].days
         /\ appAlerts[d][i].days = appAlerts[d][j].days =>
              \/ PlaceOf(appClients[d], appAlerts[d][i].clientName)
                   < PlaceOf(appClients[d], appAlerts[d][j].clientName)
              \/ /\ appAlerts[d][i].clientName = appAlerts[d][j].clientName
                 /\ appAlerts[d][i].installment < appAlerts[d][j].installment

\* ================================================================ the chart
\* The exact sums the chart stands for, in sixteenths.
RECURSIVE SumThrough(_, _, _)
SumThrough(Monthly(_, _), list, i) ==
  IF i = 0 THEN 0 ELSE Monthly(list, i) + SumThrough(Monthly, list, i - 1)

RECURSIVE SumOwed(_)
SumOwed(list) == IF list = << >> THEN 0 ELSE TotalOwed(Head(list)) + SumOwed(Tail(list))

\* C21: each cumulative value of the chart is the rounding of the exact sum
\* of the contributions of periods 1..i, and the last period's total is the
\* rounded sum of principal x (1 + interestRate/100) over the loans.
C21_RoundsOnlyAtOutput ==
  /\ \A i \in 1..Len(progressionData) :
       /\ progressionData[i].principal =
            MathRound(SumThrough(MonthlyPrincipalReturn, portfolio, i))
       /\ progressionData[i].interest =
            MathRound(SumThrough(MonthlyInterestReturn, portfolio, i))
       /\ progressionData[i].total =
            MathRound(SumThrough(MonthlyPrincipalReturn, portfolio, i)
                      + SumThrough(MonthlyInterestReturn, portfolio, i))
  /\ progressionData[Len(progressionData)].total = MathRound(SumOwed(portfolio))

\* C22: the chart's cumulative total never goes down from a period to the next.
C22_TotalNonDecreasing ==
  \A i \in 1..(Len(progressionData) - 1) :
     progressionData[i].total <= progressionData[i + 1].total

\* ========================================================= the import prompt
\* A press of one of the prompt's two buttons.
ImportStep ==
  /\ showSyncModal /\ syncText.kind # "empty"
  /\ lastDialog' \in {"error", "invalid", "merged", "replaced", "declinedReplace"}
  /\ syncText' = syncText

\* The payload is structurally invalid: no JSON, no array, or an array with an
\* entry that has no id.
Malformed(text) ==
  \/ text.kind \in {"garbage", "value"}
  \/ text.kind = "array" /\ NoId \in IdsOf(text.items)

\* C23: a press of either button of the prompt on a malformed payload is
\* rejected and leaves the record set as it was.
C23_AllOrNothing ==
  [][(ImportStep /\ Malformed(syncText)) =>
       /\ clients' = clients
       /\ lastDialog' \in {"error", "invalid"}]_vars

\* A press of merge, or of replace with the dialog confirmed.
UserChoice == MergeStep \/ ReplaceStep

\* The user's own edits of the list.
OwnEdit == addClient \/ removeClient \/ handleTogglePayment

\* C24: a payload is never applied silently: the record set is what the page
\* load read from storage, and after that it changes only by the user's own
\* edits and by a press of merge or replace in the prompt; detecting a
\* payload (share link, file) and closing the prompt leave it as it was.
C24_NeverAppliedSilently ==
  [][~(UserChoice \/ OwnEdit) =>
       clients' = IF MountStep THEN StatusCheck(LoadClients(storage, now), utcOffset)
                  ELSE clients]_vars

\* A payload with records was detected and the prompt was closed without a
\* choice: the record set is still empty.
C24_Witness ==
  /\ booted /\ ~showSyncModal
  /\ syncText.kind = "array" /\ syncText.items # << >>
  /\ clients = << >>
  /\ lastDialog = "none"

\* ================================================================== startup
\* C25: a page load over a persisted item that is missing, is no JSON or is
\* no array gives the empty record set and a running application; it never
\* fails.
C25_FailsOpen ==
  [][(~booted /\ storage.kind \in {"missing", "garbage", "value"}) =>
       /\ lastDialog' # "crashed"
       /\ booted' => clients' = << >>]_vars

\* ============================================================== persistence
\* C26: after every change of the record set the persisted copy is the whole
\* record set, or the write failed on a full storage; and a failed write
\* leaves the change in memory and the application running.
C26_WriteFailureSurvived ==
  [][(booted /\ clients' # clients) =>
       /\ storage' = Persisted(clients') \/ storageFull
       /\ ~pageFailed']_vars

\* ========================================================== status as cache
\* C27: on every device each live record's stored status is deriveStatus of
\* its installments and today; so a record stored as Completed has every
\* installment paid, and a record with every installment paid is stored as
\* Completed.
C27_StatusIsCache ==
  \A d \in Devices :
     \A i \in 1..Len(appClients[d]) :
        ~appClients[d][i].isDeleted =>
          appClients[d][i].status = DeriveStatus(appClients[d][i].installmentsList)

\* ================================================================ tombstones
\* C28: a record a device holds as deleted becomes live again on that device
\* only through a copy with a greater lastUpdated.
C28_NoResurrection ==
  [][\A d \in Devices :
       \A id \in IdsOf(appClients[d]) \cap IdsOf(appClients'[d]) :
          (Find(appClients[d], id).isDeleted /\ ~Find(appClients'[d], id).isDeleted) =>
            TsOf(Find(appClients'[d], id)) > TsOf(Find(appClients[d], id))]_vars

\* ======================================================== pushes of handlers
\* C29: on a connected device every toggle and every delete issues exactly one
\* push, and that push carries the record the mutation stored.
C29_OnePushPerMutation ==
  [][\A d \in Devices :
       (MutationStepOn(d) /\ isCloudConnected[d]) =>
          \E i \in Changed(appClients[d], appClients'[d]) :
             outbox'[d] = Append(outbox[d], appClients'[d][i])]_vars

\* =========================================================== the cloud copy
\* C30: the lastUpdated of the document the cloud holds for an id never
\* decreases, whatever the order in which the devices' pushes arrive.
C30_CloudStampNeverDecreases ==
  [][\A id \in Ids :
       (docs[id] # << >> /\ docs'[id] # << >>) =>
          TsOf(Head(docs'[id])) >= TsOf(Head(docs[id]))]_vars

====
